---- MODULE Spec2Model ----
(***************************************************************************)
(* Model of the signaling core of the web client:                          *)
(*   - WebSocketService (src/src/script/event/WebSocketService.js): the    *)
(*     push connection, its keepalive and its reconnect policy;            *)
(*   - CallingRepository (src/unnamed/part_000): the active-calls list,    *)
(*     the engine's state handler, inbound call events and user commands.  *)
(* All handlers run on one event loop, so every handler is one atomic      *)
(* action; a handler's nested calls are composed as operators on the       *)
(* component's state record.                                               *)
(***************************************************************************)
EXTENDS Integers, Sequences, FiniteSets, TLC

VARIABLES ws, cr, cfg, api, tu, rx

vars == <<ws, cr, cfg, api, tu, rx>>

(***************************************************************************)
(* Bounds of the model.                                                    *)
(***************************************************************************)
\* sockets the service may create in one behaviour
MaxSockets == 3
\* cap of the reconnect-attempt counter
MaxReconnectCount == 3
\* reconnect timers outstanding at once
MaxTimers == 2
\* values Date.now() may return in the calling model
MaxNow == 1
\* config fetches in flight at once
MaxPending == 2
\* config responses in one behaviour
MaxResponses == 2
\* callStart invocations of the call API in one behaviour
MaxCallStarts == 2
\* the longest duration formatted, in seconds
MaxDuration == 36610
\* inbound frames in one behaviour
MaxFrames == 2

(***************************************************************************)
(* WebSocketService                                                        *)
(***************************************************************************)

\* WebSocketService.CONFIG.RECONNECT_INTERVAL, in seconds
RECONNECT_INTERVAL == 15

\* WebSocketService.CHANGE_TRIGGER
CHANGE_TRIGGER ==
  {"CLEANUP", "CLOSE", "ERROR", "LOGOUT", "OFFLINE", "ONLINE",
   "PAGE_NAVIGATION", "PING_INTERVAL", "READY_STATE", "WARNING_BAR"}

\* the calls of reset and reconnect other components make, in this model
ExternalResets == {<<"LOGOUT", FALSE>>, <<"OFFLINE", TRUE>>}
ExternalReconnects == {"ONLINE"}

\* `undefined` for this.socket, this.pendingReconnectTrigger
Undefined == "undefined"

\* what one handler did, seen from outside: reset at the start of each handler
NoEffects(op) ==
  [op |-> op,
   trigger |-> Undefined,  \* the trigger reconnect() was invoked with, if it was
   calls |-> 0,            \* invocations of reconnect(trigger)
   token |-> FALSE,        \* whether reconnect() found the credential
   renew |-> 0,            \* ACCESS_TOKEN.RENEW publications
   online |-> 0,           \* CONNECTION.ONLINE publications (reconnected)
   waited |-> 0,           \* seconds the timer that fired had been armed for
   armed |-> <<>>,         \* the delay of the reconnect timer armed, if one was
   sent |-> <<>>,          \* frames sent on the socket
   frame |-> 0,            \* the inbound frame the handler is about, by arrival
   notified |-> <<>>,      \* values handed to onNotification
   pong |-> FALSE,         \* a pong was read while a ping was unanswered
   threw |-> FALSE]        \* JSON.parse threw

\* the state after the constructor
WsConstructed(token) ==
  [sockets |-> <<>>,                       \* every WebSocket created so far
   socket |-> 0,                           \* this.socket: index into sockets, 0 = undefined
   thenReconnected |-> FALSE,              \* the connect promise continues in reconnect()
   pingTimers |-> {},                      \* outstanding setInterval timers, by id
   pingIntervalId |-> 0,
   hasAlreadySentUnansweredPing |-> FALSE,
   reconnectTimers |-> {},                 \* outstanding setTimeout timers
   reconnectTimeoutId |-> 0,
   reconnectCount |-> 0,
   pendingReconnectTrigger |-> Undefined,
   accessToken |-> token,                  \* loadValue(ACCESS_TOKEN.EXPIRATION) is truthy
   recovering |-> FALSE,                   \* a socket error/close has not been recovered yet
   pingFail |-> 0,                         \* PING_INTERVAL reconnects the current socket caused
   stopped |-> FALSE,                      \* reset(trigger, false) is the last call a client
                                           \* made of connect, reset and reconnect
   fx |-> NoEffects("constructor")]

Begin(w, op) == [w EXCEPT !.fx = NoEffects(op)]

\* the id the runtime gives a new timer: the smallest one not outstanding
FreshId(ids) == CHOOSE i \in 1..(Cardinality(ids) + 1) : i \notin ids

\* window.clearInterval(this.pingIntervalId)
clearIntervalSkipped(w) == w

clearInterval(w) == [w EXCEPT !.pingTimers = @ \ {w.pingIntervalId}]

\* window.clearTimeout(this.reconnectTimeoutId)
clearTimeout(w) ==
  [w EXCEPT !.reconnectTimers = {t \in @ : t.id # w.reconnectTimeoutId}]

\* this.pingIntervalId = window.setInterval(this.sendPing, PING_INTERVAL); the
\* interval's ticks are the KeepaliveTick action, its length is not modelled
setInterval(w) ==
  LET id == FreshId(w.pingTimers)
  IN [w EXCEPT !.pingTimers = @ \cup {id}, !.pingIntervalId = id]

\* this.reconnectTimeoutId = window.setTimeout(() => reconnect(), delay)
setTimeout(w, delay) ==
  LET id == FreshId({t.id : t \in w.reconnectTimers})
  IN [w EXCEPT !.reconnectTimers = @ \cup {[id |-> id, delay |-> delay, age |-> 0]},
               !.reconnectTimeoutId = id,
               !.fx.armed = Append(@, delay)]

\* an id that refers to no outstanding timer behaves as no id
Normalize(w) ==
  [w EXCEPT !.pingIntervalId = IF @ \in w.pingTimers THEN @ ELSE 0,
            !.reconnectTimeoutId =
               IF @ \in {t.id : t \in w.reconnectTimers} THEN @ ELSE 0]

\* reset(), lines 198-206: tear the current socket down
teardownNoClose(w) ==
  IF w.socket # 0 /\ w.sockets[w.socket].onclose
    THEN LET w1 == [w EXCEPT !.sockets[w.socket].onclose = FALSE,
                             !.hasAlreadySentUnansweredPing = FALSE]
         IN clearTimeout(clearInterval(w1))
    ELSE w

teardownAttached(w) ==
  IF w.socket # 0 /\ w.sockets[w.socket].onclose
    THEN LET w1 == [w EXCEPT !.sockets[w.socket].readyState = "CLOSED",
                             !.hasAlreadySentUnansweredPing = FALSE]
         IN clearTimeout(clearInterval(w1))
    ELSE w

teardown(w) ==
  IF w.socket # 0 /\ w.sockets[w.socket].onclose
    THEN LET w1 == [w EXCEPT !.sockets[w.socket].onclose = FALSE,
                             !.sockets[w.socket].readyState = "CLOSED",
                             !.hasAlreadySentUnansweredPing = FALSE]
         IN clearTimeout(clearInterval(w1))
    ELSE w

\* connect(onNotification): release the held socket, create a new one.
\* fromReconnect: the promise is the one reconnect() continues.
connect(w, fromReconnect) ==
  LET w1 == IF w.socket # 0 THEN teardown(w) ELSE w
      s  == [readyState |-> "CONNECTING",
             onclose |-> TRUE]                 \* onerror and onclose attached
  IN [w1 EXCEPT !.sockets = Append(@, s),
                !.socket = Len(w1.sockets) + 1,
                !.thenReconnected = fromReconnect,
                !.pingFail = 0]

\* reconnected()
reconnectedSilently(w) == w

reconnected(w) == [w EXCEPT !.fx.online = @ + 1]

\* the attempt that connects at once, line 173
isFirstReconnectAttemptAlways(w) == TRUE

isFirstReconnectAttempt(w) == w.reconnectCount = 1

\* lines 154-161: the credential is missing
deferReconnectAndCount(w, trigger) ==
  [w EXCEPT !.pendingReconnectTrigger = trigger,
            !.reconnectCount = @ + 1,
            !.fx.renew = @ + 1]

deferReconnect(w, trigger) ==
  [w EXCEPT !.pendingReconnectTrigger = trigger,
            !.fx.renew = @ + 1]

\* reconnect(trigger)
reconnect(w, trigger) ==
  LET w0 == [w EXCEPT !.fx.trigger = trigger, !.fx.token = w.accessToken,
                      !.fx.calls = @ + 1]
  IN IF ~w0.accessToken
       THEN deferReconnect(w0, trigger)
       ELSE LET w1 == [w0 EXCEPT !.reconnectCount = @ + 1]
            IN IF isFirstReconnectAttempt(w1)
                 THEN connect(w1, TRUE)
                 ELSE setTimeout(w1, RECONNECT_INTERVAL)

\* pendingReconnect()
pendingReconnectKeeping(w) ==
  IF w.pendingReconnectTrigger # Undefined
    THEN reconnect(w, w.pendingReconnectTrigger)
    ELSE w

pendingReconnect(w) ==
  IF w.pendingReconnectTrigger # Undefined
    THEN [reconnect(w, w.pendingReconnectTrigger)
            EXCEPT !.pendingReconnectTrigger = Undefined]
    ELSE w

\* reset(trigger, reconnect)
reset(w, trigger, shouldReconnect) ==
  LET w1 == teardown(w)
  IN IF shouldReconnect THEN reconnect(w1, trigger) ELSE w1

\* sendPing()
sendPingAlways(w) ==
  [w EXCEPT !.hasAlreadySentUnansweredPing = TRUE, !.fx.sent = Append(@, "ping")]

sendPing(w) ==
  LET isReadyStateOpen == w.sockets[w.socket].readyState = "OPEN"
  IN IF isReadyStateOpen
       THEN IF w.hasAlreadySentUnansweredPing
              THEN reconnect([w EXCEPT !.pingFail = IF @ < 2 THEN @ + 1 ELSE @],
                             "PING_INTERVAL")
              ELSE [w EXCEPT !.hasAlreadySentUnansweredPing = TRUE,
                             !.fx.sent = Append(@, "ping")]
       ELSE reconnect(w, "READY_STATE")

\* the bounds of the model, as a guard on the state a handler produces
WithinBounds(w) ==
  /\ Len(w.sockets) <= MaxSockets
  /\ w.reconnectCount <= MaxReconnectCount
  /\ Cardinality(w.reconnectTimers) <= MaxTimers

Step(w) == WithinBounds(w) /\ ws' = Normalize(w) /\ UNCHANGED <<cr, cfg, api, tu, rx>>

(***************************************************************************)
(* Inbound frames: socket.onmessage and the FileReader of each frame.      *)
(***************************************************************************)

\* the text of the frames of the model: the keepalive answer, a notification,
\* and a notification cut short
FrameData == {"pong", "{\"id\":1}", "{\"id\":"}

\* JSON.parse(text): the value in a one-element sequence, <<>> for a SyntaxError
JSONparse(text) ==
  CASE text = "{\"id\":1}" -> <<[id |-> 1]>>
    [] text = "{\"id\":2}" -> <<[id |-> 2]>>
    [] OTHER -> <<>>

\* the receiving side before any frame
RxConstructed ==
  [seq |-> 0,                           \* frames received so far
   readers |-> {},                      \* FileReaders whose onload is due
   last |-> [socket |-> 0, seq |-> 0],  \* the frame forwarded last
   dropped |-> 0]                       \* the frame whose parse failed last

\* socket.onmessage, lines 120-132: a Blob gets its own FileReader
onmessage(r, socket, data, isBlob) ==
  IF isBlob
    THEN [r EXCEPT !.seq = @ + 1,
                   !.readers = @ \cup {[seq |-> r.seq + 1, socket |-> socket,
                                        result |-> data]}]
    ELSE [r EXCEPT !.seq = @ + 1]

\* blobReader.onload, lines 123-129
onloadUnparsed(w, result) ==
  IF result = "pong"
    THEN [w EXCEPT !.hasAlreadySentUnansweredPing = FALSE]
    ELSE [w EXCEPT !.fx.notified = Append(@, result)]

onload(w, result) ==
  IF result = "pong"
    THEN [w EXCEPT !.hasAlreadySentUnansweredPing = FALSE,
                   !.fx.pong = w.hasAlreadySentUnansweredPing]
    ELSE LET parsed == JSONparse(result)
         IN IF parsed # <<>>
              THEN [w EXCEPT !.fx.notified = Append(@, parsed[1])]
              ELSE [w EXCEPT !.fx.threw = TRUE]

(***************************************************************************)
(* Actions of the WebSocketService model: callers, socket events, timers,  *)
(* the credential refresher.                                               *)
(***************************************************************************)

\* a caller invokes connect(onNotification)
Connect ==
  Step([connect(Begin(ws, "connect"), FALSE) EXCEPT !.recovering = FALSE,
                                                    !.stopped = FALSE])

\* socket.onopen, then the promise's continuation
SocketOpen ==
  /\ ws.socket # 0
  /\ ws.sockets[ws.socket].readyState = "CONNECTING"
  /\ LET w1 == setInterval([Begin(ws, "onopen") EXCEPT
                              !.sockets[ws.socket].readyState = "OPEN",
                              !.recovering = FALSE])
     IN Step(IF ws.thenReconnected
               THEN reconnected([w1 EXCEPT !.reconnectCount = 0])
               ELSE w1)

\* the closing handshake starts: readyState becomes CLOSING before onclose fires
ServerClosing ==
  /\ ws.socket # 0
  /\ ws.sockets[ws.socket].readyState = "OPEN"
  /\ ws.sockets[ws.socket].onclose
  /\ Step([Begin(ws, "closing") EXCEPT !.sockets[ws.socket].readyState = "CLOSING"])

\* the error event of a socket whose onerror handler is attached
SocketError ==
  \E i \in 1..Len(ws.sockets) :
    /\ ws.sockets[i].onclose
    /\ Step(reset([Begin(ws, "onerror") EXCEPT !.recovering = TRUE], "ERROR", TRUE))

\* the close event of a socket whose onclose handler is attached
SocketClose ==
  \E i \in 1..Len(ws.sockets) :
    /\ ws.sockets[i].onclose
    /\ Step(reset([Begin(ws, "onclose") EXCEPT
                     !.sockets[i].readyState = "CLOSED",
                     !.recovering = TRUE], "CLOSE", TRUE))

\* a "pong" frame is read
ReceivePong ==
  /\ ws.socket # 0
  /\ ws.sockets[ws.socket].readyState = "OPEN"
  /\ ws.hasAlreadySentUnansweredPing
  /\ Step(onload(Begin(ws, "pong"), "pong"))

\* an outstanding keepalive interval timer fires
KeepaliveTick ==
  /\ ws.pingTimers # {}
  /\ Step(sendPing(Begin(ws, "sendPing")))

\* an outstanding reconnect timer fires, no earlier than its delay
ReconnectTimerFire ==
  \E t \in ws.reconnectTimers :
    /\ t.age >= t.delay
    /\ Step(connect([Begin(ws, "reconnectTimer") EXCEPT
                       !.reconnectTimers = @ \ {t}, !.fx.waited = t.age],
                    TRUE))

\* time passes: one reconnect interval
Tick ==
  /\ \E t \in ws.reconnectTimers : t.age < t.delay
  /\ Step([Begin(ws, "tick") EXCEPT !.reconnectTimers =
             {[t EXCEPT !.age = IF @ + RECONNECT_INTERVAL < t.delay
                                  THEN @ + RECONNECT_INTERVAL ELSE t.delay] : t \in @}])

\* a caller invokes reset(trigger, reconnect)
Reset ==
  \E call \in ExternalResets :
    Step(reset([Begin(ws, "reset") EXCEPT
                  !.recovering = IF call[2] THEN @ ELSE FALSE,
                  !.stopped = ~call[2]],
               call[1], call[2]))

\* a caller invokes reconnect(trigger)
Reconnect ==
  \E trigger \in ExternalReconnects :
    Step(reconnect([Begin(ws, "reconnect") EXCEPT !.stopped = FALSE], trigger))

\* pendingReconnect() is invoked
PendingReconnect ==
  Step(pendingReconnect(Begin(ws, "pendingReconnect")))

\* the credential refresher stored a new token and published ACCESS_TOKEN.RENEWED
AccessTokenRenewed ==
  /\ ~ws.accessToken
  /\ Step(pendingReconnect([Begin(ws, "renewed") EXCEPT !.accessToken = TRUE]))

\* the stored access token expires
AccessTokenExpires ==
  /\ ws.accessToken
  /\ Step([Begin(ws, "expired") EXCEPT !.accessToken = FALSE])

\* the steps of the frame model
FrameStep(w, r) ==
  /\ WithinBounds(w)
  /\ r.seq <= MaxFrames
  /\ ws' = Normalize(w)
  /\ rx' = r
  /\ UNCHANGED <<cr, cfg, api, tu>>

\* a frame arrives on the held, open socket
ReceiveFrame ==
  /\ ws.socket # 0
  /\ ws.sockets[ws.socket].readyState = "OPEN"
  /\ \E data \in FrameData, isBlob \in BOOLEAN :
       FrameStep([Begin(ws, "onmessage") EXCEPT !.fx.frame = rx.seq + 1],
                 onmessage(rx, ws.socket, data, isBlob))

\* a FileReader finishes: readers finish in any order
ReaderLoads ==
  \E reader \in rx.readers :
    LET w == onload([Begin(ws, "onload") EXCEPT !.fx.frame = reader.seq],
                    reader.result)
    IN FrameStep(w, [rx EXCEPT
                       !.readers = @ \ {reader},
                       !.last = IF w.fx.notified # <<>>
                                  THEN [socket |-> reader.socket, seq |-> reader.seq]
                                  ELSE @,
                       !.dropped = IF w.fx.threw THEN reader.seq ELSE @])

(***************************************************************************)
(* CallingRepository                                                       *)
(***************************************************************************)

\* the conversations of the model
Conversations == {"A", "B"}

\* CALL_STATE, by the names of its members
CALL_STATE ==
  {"NONE", "OUTGOING", "INCOMING", "ANSWERED", "MEDIA_ESTAB",
   "TERM_LOCAL", "TERM_REMOTE", "UNKNOWN"}

\* the states _checkConcurrentJoinedCall is written for
JoinStates == {"INCOMING", "REJECTED", "ONGOING", "ANSWER", "OUTGOING"}

\* the media types callTypeFromMediaType is asked for
MediaTypes == {"AUDIO", "AUDIO_VIDEO", "SCREEN", "NONE"}

\* the users removeParticipant is asked to remove
UserIds == {"u1", "u2"}

\* content.type of the inbound call events of the model
CallMessageTypes == {"SETUP", "CANCEL", "HANGUP"}

\* the millisecond timestamps of the inbound events of the model: the server
\* time when the event is handled, and the time the event carries
ServerTimestamps == {1499, 1999}
EventTimestamps == {1000, 1500}

\* what one handler of the repository did, seen from outside
NoCallEffects(op) ==
  [op |-> op,
   conversationId |-> Undefined,
   type |-> Undefined,      \* content.type of the inbound event
   state |-> Undefined,     \* the call state the handler was given
   had |-> FALSE,           \* a call of the conversation was stored when the handler began
                            \* (state handler, onCallEvent, toggleState)
   concurrent |-> FALSE,    \* a call of another conversation was in MEDIA_ESTAB then
                            \* (startCall, answerCall, _checkConcurrentJoinedCall)
   recv |-> 0,              \* recv_msg invocations
   res |-> 0,               \* what recv_msg returned
   ms |-> <<>>,             \* the event's two timestamps, in milliseconds
   secs |-> <<>>,           \* the two timestamps handed to recv_msg
   cmds |-> <<>>,           \* commands sent to the engine
   injected |-> <<>>,       \* records handed to eventRepository.injectEvent
   modal |-> FALSE,         \* a modal or warning was shown
   outcome |-> "returned"]  \* returned | resolved | the error thrown or rejected with

\* the state after the constructor, for the given conversations
CrConstructed(participants) ==
  [activeCalls |-> <<>>,              \* this.activeCalls, an observable array
   participants |-> participants,     \* participating_user_ids().length of each conversation
   fx |-> NoCallEffects("constructor")]

\* findCall(conversationId): the index of the first match, 0 for undefined
findCallNone(calls, conversationId) == 0

findCall(calls, conversationId) ==
  IF \E i \in 1..Len(calls) : calls[i].conversationId = conversationId
    THEN CHOOSE i \in 1..Len(calls) :
           /\ calls[i].conversationId = conversationId
           /\ \A j \in 1..(i - 1) : calls[j].conversationId # conversationId
    ELSE 0

\* storeCall(call)
storeCall(calls, call) == Append(calls, call)

\* removeCall(call): indexOf, then splice; index 0 is a call that is not stored
removeCallNever(calls, index) == calls

removeCall(calls, index) ==
  IF index # 0
    THEN [i \in 1..(Len(calls) - 1) |-> IF i < index THEN calls[i] ELSE calls[i + 1]]
    ELSE calls

\* a call of another conversation has established media
OtherCallEstablished(calls, conversationId) ==
  \E i \in 1..Len(calls) :
    /\ calls[i].conversationId # conversationId
    /\ calls[i].state = "MEDIA_ESTAB"

CallBegin(c, op, conversationId) ==
  [c EXCEPT !.fx = [NoCallEffects(op) EXCEPT
                      !.conversationId = conversationId,
                      !.had = /\ op \in {"state_handler", "onCallEvent", "toggleState"}
                              /\ findCall(c.activeCalls, conversationId) # 0,
                      !.concurrent =
                         /\ op \in {"startCall", "answerCall", "_checkConcurrentJoinedCall"}
                         /\ OtherCallEstablished(c.activeCalls, conversationId)]]

\* the handler given to set_state_handler
stateHandlerStampsAlways(c, conversationId, state, now) ==
  LET storedCall == findCall(c.activeCalls, conversationId)
      call == IF storedCall # 0
                THEN c.activeCalls[storedCall]
                ELSE [conversationId |-> conversationId, reason |-> Undefined,
                      startedAt |-> 0, state |-> state]
      call1 == [call EXCEPT !.state = state, !.reason = Undefined]
      calls1 == IF storedCall # 0
                  THEN [c.activeCalls EXCEPT ![storedCall] = call1]
                  ELSE c.activeCalls
  IN IF state \in {"TERM_REMOTE", "TERM_LOCAL", "NONE"}
       THEN [c EXCEPT !.activeCalls = removeCall(calls1, storedCall)]
       ELSE LET call2 == [call1 EXCEPT !.startedAt = now]
            IN IF storedCall = 0
                 THEN [c EXCEPT !.activeCalls = storeCall(calls1, call2)]
                 ELSE [c EXCEPT !.activeCalls = [calls1 EXCEPT ![storedCall] = call2]]

stateHandler(c, conversationId, state, now) ==
  LET storedCall == findCall(c.activeCalls, conversationId)
      call == IF storedCall # 0
                THEN c.activeCalls[storedCall]
                ELSE [conversationId |-> conversationId, reason |-> Undefined,
                      startedAt |-> 0, state |-> state]
      call1 == [call EXCEPT !.state = state, !.reason = Undefined]
      calls1 == IF storedCall # 0
                  THEN [c.activeCalls EXCEPT ![storedCall] = call1]
                  ELSE c.activeCalls
  IN IF state \in {"TERM_REMOTE", "TERM_LOCAL", "NONE"}
       THEN [c EXCEPT !.activeCalls = removeCall(calls1, storedCall)]
       ELSE LET call2 == IF state = "MEDIA_ESTAB"
                           THEN [call1 EXCEPT !.startedAt = now] ELSE call1
            IN IF storedCall = 0
                 THEN [c EXCEPT !.activeCalls = storeCall(calls1, call2)]
                 ELSE [c EXCEPT !.activeCalls = [calls1 EXCEPT ![storedCall] = call2]]

\* injectActivateEvent / injectDeactivateEvent
injectActivateEvent(c, conversationId) ==
  [c EXCEPT !.fx.injected = Append(@, <<"voice-channel-activate", conversationId>>)]

injectDeactivateEvent(c, conversationId, reason) ==
  [c EXCEPT !.fx.injected =
     Append(@, <<"voice-channel-deactivate", conversationId, reason>>)]

\* line 302: const toSecond = timestamp => Math.floor(timestamp / 1000)
toSecondRounded(timestamp) == (timestamp + 500) \div 1000

toSecond(timestamp) == timestamp \div 1000

\* onCallEvent(event, source); res is what the engine's recv_msg returned,
\* currentTimestamp what toServerTimestamp() returned, time the event's time
\* as new Date(time).getTime() reads it
onCallEventUnchecked(c, type, conversationId, res, currentTimestamp, time) ==
  LET c1 == [c EXCEPT !.fx.recv = @ + 1, !.fx.res = res, !.fx.type = type,
                      !.fx.ms = <<currentTimestamp, time>>,
                      !.fx.secs = <<toSecond(currentTimestamp), toSecond(time)>>]
  IN CASE type = "SETUP" -> injectActivateEvent(c1, conversationId)
       [] type = "CANCEL" -> injectDeactivateEvent(c1, conversationId, "MISSED")
       [] OTHER -> c1

onCallEvent(c, type, conversationId, res, currentTimestamp, time) ==
  LET c1 == [c EXCEPT !.fx.recv = @ + 1, !.fx.res = res, !.fx.type = type,
                      !.fx.ms = <<currentTimestamp, time>>,
                      !.fx.secs = <<toSecond(currentTimestamp), toSecond(time)>>]
  IN IF res # 0
       THEN c1
       ELSE CASE type = "SETUP" -> injectActivateEvent(c1, conversationId)
              [] type = "CANCEL" -> injectDeactivateEvent(c1, conversationId, "MISSED")
              [] OTHER -> c1

\* a command sent to the engine
engine(c, cmd) == [c EXCEPT !.fx.cmds = Append(@, cmd)]

\* callTypeFromMediaType(mediaType)
callTypeFromMediaType(mediaType) ==
  CASE mediaType = "AUDIO" -> "NORMAL"
    [] mediaType = "AUDIO_VIDEO" -> "VIDEO"
    [] mediaType = "SCREEN" -> "VIDEO"
    [] OTHER -> "NORMAL"

\* startCall(conversationId, conversationType, callType)
startCall(c, conversationId, conversationType, callType) ==
  engine(c, <<"start", conversationId, callType, conversationType>>)

\* leaveCall(conversationId)
leaveCall(c, conversationId) == engine(c, <<"end", conversationId>>)

\* removeParticipant(conversationId, userId): throws, whatever it is given
removeParticipantSilently(c, conversationId, userId) == c

removeParticipant(c, conversationId, userId) == [c EXCEPT !.fx.outcome = "Error"]

\* line 364: const isActiveCall = false
isActiveCall == FALSE

\* toggleState(mediaType, conversationEntity); the entity is a conversation id,
\* or Undefined when there is no active conversation
toggleState(c, mediaType, conversationEntity, isGroup) ==
  IF conversationEntity # Undefined
    THEN LET isGroupCall == IF isGroup THEN "GROUP" ELSE "ONEONONE"
             callType == callTypeFromMediaType(mediaType)
         IN IF isActiveCall
              THEN leaveCall(c, conversationEntity)
              ELSE startCall(c, conversationEntity, isGroupCall, callType)
    ELSE c

\* _checkCallingSupport(conversationEntity, mediaType, callState)
checkCallingSupport(c, conversationId, mediaType, callState, supportsCalling, supportsVideoCall) ==
  IF c.participants[conversationId] = 0
    THEN [c EXCEPT !.fx.modal = TRUE, !.fx.outcome = "NOT_SUPPORTED"]
    ELSE IF callState = "OUTGOING" /\ ~supportsCalling
      THEN [c EXCEPT !.fx.modal = TRUE, !.fx.outcome = "NOT_SUPPORTED"]
      ELSE IF mediaType = "AUDIO_VIDEO" /\ ~supportsVideoCall
        THEN [c EXCEPT !.fx.modal = TRUE, !.fx.outcome = "NOT_SUPPORTED"]
        ELSE [c EXCEPT !.fx.outcome = "resolved"]

\* line 464: const ongoingCallId = false
ongoingCallId == FALSE

\* _checkConcurrentJoinedCall(newCallId, callState)
checkConcurrentJoinedCall(c, newCallId, callState) ==
  LET c1 == [c EXCEPT !.fx.state = callState]
  IN IF ~ongoingCallId
       THEN [c1 EXCEPT !.fx.outcome = "resolved"]
       ELSE IF callState \in {"INCOMING", "REJECTED", "ONGOING", "ANSWER"}
         THEN [c1 EXCEPT !.fx.modal = TRUE, !.fx.outcome = "pending"]
         ELSE [c1 EXCEPT !.fx.outcome = "WRONG_STATE"]

CallStep(c) == cr' = c /\ UNCHANGED <<ws, cfg, api, tu, rx>>

(***************************************************************************)
(* Actions of the CallingRepository model: the engine's callbacks, inbound *)
(* events and the user's commands.                                         *)
(***************************************************************************)

\* the engine reports a state change; Date.now() returns now
StateHandler ==
  \E conversationId \in Conversations, state \in CALL_STATE, now \in 1..MaxNow :
    CallStep(stateHandler([CallBegin(cr, "state_handler", conversationId)
                             EXCEPT !.fx.state = state],
                          conversationId, state, now))

\* an inbound call event; recv_msg returns 0 or an error code
OnCallEvent ==
  \E type \in CallMessageTypes, conversationId \in Conversations, res \in {0, 1},
     currentTimestamp \in ServerTimestamps, time \in EventTimestamps :
    CallStep(onCallEvent(CallBegin(cr, "onCallEvent", conversationId),
                         type, conversationId, res, currentTimestamp, time))

ToggleState ==
  \E mediaType \in MediaTypes, conversationEntity \in Conversations \cup {Undefined},
     isGroup \in BOOLEAN :
    CallStep(toggleState(CallBegin(cr, "toggleState", conversationEntity),
                         mediaType, conversationEntity, isGroup))

StartCall ==
  \E conversationId \in Conversations, conversationType \in {"ONEONONE", "GROUP"},
     callType \in {"NORMAL", "VIDEO"} :
    CallStep(startCall(CallBegin(cr, "startCall", conversationId),
                       conversationId, conversationType, callType))

AnswerCall ==
  \E conversationId \in Conversations, callType \in {"NORMAL", "VIDEO"} :
    CallStep(engine(CallBegin(cr, "answerCall", conversationId),
                    <<"answer", conversationId, callType>>))

RejectCall ==
  \E conversationId \in Conversations :
    CallStep(engine(CallBegin(cr, "rejectCall", conversationId),
                    <<"reject", conversationId>>))

LeaveCall ==
  \E conversationId \in Conversations :
    CallStep(leaveCall(CallBegin(cr, "leaveCall", conversationId), conversationId))

MuteCall ==
  \E conversationId \in Conversations, isMuted \in BOOLEAN :
    CallStep(engine(CallBegin(cr, "muteCall", conversationId), <<"set_mute", isMuted>>))

\* a caller asks to remove a participant of a conversation
RemoveParticipant ==
  \E conversationId \in Conversations, userId \in UserIds :
    CallStep(removeParticipant(CallBegin(cr, "removeParticipant", conversationId),
                               conversationId, userId))

CheckCallingSupport ==
  \E conversationId \in Conversations, mediaType \in {"AUDIO", "AUDIO_VIDEO"},
     callState \in {"OUTGOING", "INCOMING"}, supportsCalling \in BOOLEAN,
     supportsVideoCall \in BOOLEAN :
    CallStep(checkCallingSupport(CallBegin(cr, "_checkCallingSupport", conversationId),
                                 conversationId, mediaType, callState,
                                 supportsCalling, supportsVideoCall))

CheckConcurrentJoinedCall ==
  \E newCallId \in Conversations, callState \in JoinStates :
    CallStep(checkConcurrentJoinedCall(
               CallBegin(cr, "_checkConcurrentJoinedCall", newCallId),
               newCallId, callState))

(***************************************************************************)
(* CallingRepository: the calling configuration and its cache.  Times are  *)
(* milliseconds on the clock Date.now() reads.                             *)
(***************************************************************************)

\* CallingRepository.CONFIG.DEFAULT_CONFIG_TTL, in seconds
DEFAULT_CONFIG_TTL == 60 * 60

\* TimeUtil.UNITS_IN_MILLIS.SECOND
SECOND == 1000

\* the ttl values (seconds) the backend answers with, in this model
Ttls == {0, 1, 100, 4000, 5000}

Min(a, b) == IF a < b THEN a ELSE b

\* this.callingConfig = undefined
NoConfig == [present |-> FALSE, ttl |-> 0, expiration |-> 0, fetchedAt |-> 0]

\* what one handler of the configuration cache did
NoConfigEffects(op) ==
  [op |-> op,
   at |-> 0,             \* Date.now() when the handler ran
   config |-> NoConfig,  \* this.callingConfig when the handler began
   cached |-> FALSE,     \* getConfig resolved with the stored config
   fetches |-> 0]        \* fetchConfig requests the handler sent

\* the configuration fields after the constructor
CfgConstructed ==
  [now |-> 0,                      \* the clock
   callingConfig |-> NoConfig,
   timers |-> {},                  \* outstanding setTimeout timers: [id, due]
   callingConfigTimeout |-> 0,     \* 0 = undefined
   pending |-> 0,                  \* fetchConfig requests in flight
   responses |-> 0,                \* responses received so far
   fx |-> NoConfigEffects("constructor")]

ConfigBegin(g, op) ==
  [g EXCEPT !.fx = [NoConfigEffects(op) EXCEPT !.at = g.now,
                                               !.config = g.callingConfig]]

\* _clearConfig()
clearConfig(g) == [g EXCEPT !.callingConfig = NoConfig]

\* _clearConfigTimeout()
clearConfigTimeout(g) ==
  IF g.callingConfigTimeout # 0
    THEN [g EXCEPT !.timers = {t \in @ : t.id # g.callingConfigTimeout},
                   !.callingConfigTimeout = 0]
    ELSE g

\* fetchConfig(limit): the request is sent; its answer is the ConfigResponse action
fetchConfig(g) == [g EXCEPT !.pending = @ + 1, !.fx.fetches = @ + 1]

\* lines 660-661, in milliseconds.  ttl * 0.9 is computed in tenths of a second,
\* which is exact for an integer ttl; `||` takes the default for a product of 0.
configTimeout(ttl) ==
  LET ttl9 == IF ttl * 9 # 0 THEN ttl * 9 ELSE DEFAULT_CONFIG_TTL * 10
  IN (Min(ttl9, DEFAULT_CONFIG_TTL * 10) * SECOND) \div 10

\* the continuation of _getConfigFromBackend() for the answer callingConfig
storeConfig(g, truthy, ttl) ==
  IF truthy
    THEN LET g1 == clearConfigTimeout(g)
             timeout == configTimeout(ttl)
             id == FreshId({t.id : t \in g1.timers})
         IN [g1 EXCEPT !.callingConfig = [present |-> TRUE, ttl |-> ttl,
                                          expiration |-> g.now + timeout,
                                          fetchedAt |-> g.now],
                       !.timers = @ \cup {[id |-> id, due |-> g.now + timeout]},
                       !.callingConfigTimeout = id]
    ELSE g

\* getConfig()
getConfig(g) ==
  IF g.callingConfig.present
    THEN LET isExpiredConfig == g.callingConfig.expiration < g.now
         IN IF ~isExpiredConfig
              THEN [g EXCEPT !.fx.cached = TRUE]
              ELSE fetchConfig(clearConfig(g))
    ELSE fetchConfig(g)

\* a stale timer id behaves as no id
ConfigStep(g) ==
  /\ g.pending <= MaxPending
  /\ g.responses <= MaxResponses
  /\ cfg' = [g EXCEPT !.callingConfigTimeout =
                        IF @ \in {t.id : t \in g.timers} THEN @ ELSE 0]
  /\ UNCHANGED <<ws, cr, api, tu, rx>>

\* a caller invokes getConfig()
GetConfig == ConfigStep(getConfig(ConfigBegin(cfg, "getConfig")))

\* the backend answers a fetchConfig request
ConfigResponse ==
  /\ cfg.pending > 0
  /\ \E truthy \in BOOLEAN, ttl \in Ttls :
       ConfigStep(storeConfig([ConfigBegin(cfg, "response") EXCEPT
                                 !.pending = @ - 1, !.responses = @ + 1],
                              truthy, ttl))

\* the refresh timer fires, no earlier than it is due
ConfigTimerFire ==
  \E t \in cfg.timers :
    /\ t.due <= cfg.now
    /\ ConfigStep(getConfig(clearConfig([ConfigBegin(cfg, "timer") EXCEPT
                                           !.timers = @ \ {t}])))

\* the instants around which the cache behaves differently
Instants(g) ==
  {t.due : t \in g.timers}
    \cup (IF g.callingConfig.present THEN {g.callingConfig.expiration} ELSE {})

\* time passes, to one millisecond before, at or after such an instant
ClockAdvances ==
  \E e \in Instants(cfg), d \in {-1, 0, 1} :
    /\ e + d > cfg.now
    /\ ConfigStep([ConfigBegin(cfg, "clock") EXCEPT !.now = e + d])

(***************************************************************************)
(* TimeUtil.formatSeconds.  Strings are sequences of characters.           *)
(***************************************************************************)

\* the decimal digits, by value
Digits == <<"0", "1", "2", "3", "4", "5", "6", "7", "8", "9">>

\* Number.prototype.toString() of a non-negative integer
RECURSIVE toString(_)
toString(n) ==
  IF n < 10 THEN <<Digits[n + 1]>> ELSE toString(n \div 10) \o <<Digits[(n % 10) + 1]>>

\* zeroPadding(value): the value's digits, with leading zeros up to two characters
zeroPadding(value) ==
  IF Len(toString(value)) < 2 THEN <<"0">> \o toString(value) ELSE toString(value)

\* Array.prototype.join(':')
RECURSIVE join(_)
join(components) ==
  IF Len(components) = 0 THEN <<>>
  ELSE IF Len(components) = 1 THEN components[1]
  ELSE components[1] \o <<":">> \o join(Tail(components))

\* formatSeconds(duration), for a non-negative integer duration (Math.round and
\* Math.ceil leave an integer as it is)
formatSecondsWithHours(duration) ==
  LET hours == duration \div (60 * 60)
      divisorForMinutes == duration % (60 * 60)
      minutes == divisorForMinutes \div 60
      seconds == divisorForMinutes % 60
  IN join(<<toString(hours), zeroPadding(minutes), zeroPadding(seconds)>>)

formatSeconds(duration) ==
  LET hours == duration \div (60 * 60)
      divisorForMinutes == duration % (60 * 60)
      minutes == divisorForMinutes \div 60
      divisor_for_seconds == divisorForMinutes % 60
      seconds == divisor_for_seconds
      components == <<zeroPadding(minutes), zeroPadding(seconds)>>
  IN join(IF hours > 0 THEN <<toString(hours)>> \o components ELSE components)

\* nothing formatted yet
TuConstructed == [duration |-> 0, called |-> FALSE, formatted |-> <<>>]

\* a caller formats the duration
FormatSeconds ==
  /\ ~tu.called
  /\ tu' = [tu EXCEPT !.called = TRUE, !.formatted = formatSeconds(tu.duration)]
  /\ UNCHANGED <<ws, cr, cfg, api, rx>>

(***************************************************************************)
(* callAPI (src/src/script/calling/callAPI.ts).  Strings are sequences of  *)
(* characters.  A callStart is followed by its promise chain: getUserMedia,*)
(* createOffer, setLocalDescription (not awaited) and the 500 ms timer     *)
(* whose callback sends SETUP.                                             *)
(***************************************************************************)

\* the users of the model: userId and clientId
WUsers ==
  {[userId |-> <<"u">>, clientId |-> <<"1", "2">>],
   [userId |-> <<"u", "1">>, clientId |-> <<"2">>]}

\* the conversation ids callStart is invoked with
ConversationIds == {<<"c">>, <<"2", "c">>}

\* the session id callStart passes to buildMessagePayload (line 152): 'felix'
SESSID == <<"f", "e", "l", "i", "x">>

\* what one step of the call API did
NoApiEffects(op) ==
  [op |-> op,
   had |-> FALSE,        \* state.activeCalls held the call id when callStart began
                         \* or callGetState looked it up
   args |-> <<>>,        \* the wUser and conversationId the function was given
   sent |-> <<>>,        \* payloads handed to wUser.callbacks.sendMessage
   outcome |-> Undefined]

\* the module state after load
ApiConstructed ==
  [activeCalls |-> <<>>,     \* state.activeCalls: [callId, wCall] entries, one per key
   attempts |-> <<>>,        \* the promise chain of every callStart so far
   fx |-> NoApiEffects("load")]

ApiBegin(a, op) == [a EXCEPT !.fx = NoApiEffects(op)]

\* generateCallId(call, conversationId)
generateCallId(wUser, conversationId) ==
  wUser.userId \o wUser.clientId \o conversationId

\* state.activeCalls[callIdentifier]: the index of the entry, 0 for undefined
activeCallAt(a, callIdentifier) ==
  IF \E i \in 1..Len(a.activeCalls) : a.activeCalls[i].callId = callIdentifier
    THEN CHOOSE i \in 1..Len(a.activeCalls) : a.activeCalls[i].callId = callIdentifier
    ELSE 0

\* buildMessagePayload(type, sessid, sdp, isReponse): the object JSON.stringify
\* serializes, field by field
buildMessagePayload(type, sessid, sdp, isReponse) ==
  [resp |-> isReponse,
   type |-> type,
   version |-> "3.0",
   props |-> [audiosend |-> "true", screensend |-> "false", videosend |-> "false"],
   sdp |-> sdp,
   sessid |-> sessid]

\* callStart(wUser, conversationId, callType, conversationType, audioCbr)
callStart(a, wUser, conversationId, callType, conversationType, audioCbr) ==
  LET callIdentifier == generateCallId(wUser, conversationId)
      activeCall == activeCallAt(a, callIdentifier)
      wCall == [conversationId |-> conversationId,
                conversationType |-> conversationType,
                callType |-> callType,
                audioCbr |-> audioCbr,
                state |-> "OUTGOING"]
      entry == [callId |-> callIdentifier, wCall |-> wCall]
  IN [a EXCEPT !.activeCalls = IF activeCall # 0
                                 THEN [@ EXCEPT ![activeCall] = entry]
                                 ELSE Append(@, entry),
               !.attempts = Append(@, [wUser |-> wUser,
                                       conversationId |-> conversationId,
                                       stage |-> "getUserMedia",
                                       localDescription |-> FALSE]),
               !.fx.had = activeCall # 0,
               !.fx.args = <<wUser, conversationId>>,
               !.fx.outcome = "true"]

\* callGetState(wUser, conversationId)
callGetState(a, wUser, conversationId) ==
  LET callIdentifier == generateCallId(wUser, conversationId)
      foundCall == activeCallAt(a, callIdentifier)
  IN [a EXCEPT !.fx.had = foundCall # 0,
               !.fx.args = <<wUser, conversationId>>,
               !.fx.outcome = IF foundCall # 0
                                THEN a.activeCalls[foundCall].wCall.state
                                ELSE "UNKNOWN"]

\* the callback of the 500 ms timer of attempt k (lines 146-163)
sendSetup(a, k) ==
  LET message == buildMessagePayload("SETUP", SESSID, "sdp", FALSE)
  IN [a EXCEPT !.attempts[k].stage = "sent",
               !.fx.sent = Append(@, [conversationId |-> a.attempts[k].conversationId,
                                      userId |-> a.attempts[k].wUser.userId,
                                      clientId |-> a.attempts[k].wUser.clientId,
                                      data |-> message])]

ApiStep(a) ==
  /\ Len(a.attempts) <= MaxCallStarts
  /\ api' = a
  /\ UNCHANGED <<ws, cr, cfg, tu, rx>>

\* a caller invokes callStart
CallStart ==
  \E wUser \in WUsers, conversationId \in ConversationIds,
     callType \in {"NORMAL", "VIDEO"} :
    ApiStep(callStart(ApiBegin(api, "callStart"), wUser, conversationId,
                      callType, "ONEONONE", FALSE))

\* a caller invokes callGetState
CallGetState ==
  \E wUser \in WUsers, conversationId \in ConversationIds :
    ApiStep(callGetState(ApiBegin(api, "callGetState"), wUser, conversationId))

\* getUserMedia resolves: the tracks are added and createOffer is called
UserMediaResolves ==
  \E k \in 1..Len(api.attempts) :
    /\ api.attempts[k].stage = "getUserMedia"
    /\ ApiStep([ApiBegin(api, "getUserMedia") EXCEPT !.attempts[k].stage = "createOffer"])

\* getUserMedia or createOffer rejects: the chain has no rejection handler
ChainRejects ==
  \E k \in 1..Len(api.attempts) :
    /\ api.attempts[k].stage \in {"getUserMedia", "createOffer"}
    /\ ApiStep([ApiBegin(api, "rejected") EXCEPT !.attempts[k].stage = "rejected"])

\* createOffer resolves: setLocalDescription is called, the timer is armed
OfferCreated ==
  \E k \in 1..Len(api.attempts) :
    /\ api.attempts[k].stage = "createOffer"
    /\ ApiStep([ApiBegin(api, "createOffer") EXCEPT !.attempts[k].stage = "timer"])

\* setLocalDescription completes: peerConnection.localDescription is set
LocalDescriptionSet ==
  \E k \in 1..Len(api.attempts) :
    /\ api.attempts[k].stage \in {"timer", "sent", "threw"}
    /\ ~api.attempts[k].localDescription
    /\ ApiStep([ApiBegin(api, "setLocalDescription") EXCEPT
                  !.attempts[k].localDescription = TRUE])

\* the 500 ms timer fires.  With localDescription still null the callback reads
\* the result of SDPMapper.rewriteSdp(null, ...), which either throws or yields
\* a payload all the same.
SetupTimerFires ==
  \E k \in 1..Len(api.attempts), throws \in BOOLEAN :
    /\ api.attempts[k].stage = "timer"
    /\ throws => ~api.attempts[k].localDescription
    /\ ApiStep(IF throws
                 THEN [ApiBegin(api, "setupTimer") EXCEPT !.attempts[k].stage = "threw",
                                                          !.fx.outcome = "TypeError"]
                 ELSE sendSetup(ApiBegin(api, "setupTimer"), k))

(***************************************************************************)
(* The specifications of the configuration cache and of the call API.      *)
(***************************************************************************)

ConfigInit ==
  /\ cfg = CfgConstructed
  /\ ws = WsConstructed(TRUE)
  /\ cr = CrConstructed([conversationId \in Conversations |-> 1])
  /\ api = ApiConstructed
  /\ tu = TuConstructed
  /\ rx = RxConstructed

ConfigNext ==
  \/ GetConfig
  \/ ConfigResponse
  \/ ConfigTimerFire
  \/ ClockAdvances

ConfigSpec == ConfigInit /\ [][ConfigNext]_vars

ApiInit ==
  /\ api = ApiConstructed
  /\ tu = TuConstructed
  /\ rx = RxConstructed
  /\ ws = WsConstructed(TRUE)
  /\ cr = CrConstructed([conversationId \in Conversations |-> 1])
  /\ cfg = CfgConstructed

ApiNext ==
  \/ CallStart
  \/ CallGetState
  \/ UserMediaResolves
  \/ ChainRejects
  \/ OfferCreated
  \/ LocalDescriptionSet
  \/ SetupTimerFires

ApiSpec == ApiInit /\ [][ApiNext]_vars

\* the event loop runs what is due: a pending getUserMedia or createOffer
\* promise settles, setLocalDescription completes, an armed timer fires
ApiFairness ==
  /\ WF_vars(UserMediaResolves \/ OfferCreated \/ ChainRejects)
  /\ WF_vars(LocalDescriptionSet)
  /\ WF_vars(SetupTimerFires)

ApiLiveSpec == ApiInit /\ [][ApiNext]_vars /\ ApiFairness

FormatInit ==
  /\ tu \in {[TuConstructed EXCEPT !.duration = d] : d \in 0..MaxDuration}
  /\ ws = WsConstructed(TRUE)
  /\ cr = CrConstructed([conversationId \in Conversations |-> 1])
  /\ cfg = CfgConstructed
  /\ api = ApiConstructed
  /\ rx = RxConstructed

FormatNext == FormatSeconds

FormatSpec == FormatInit /\ [][FormatNext]_vars

(***************************************************************************)
(* The specification of the inbound frames, with the keepalive and the     *)
(* socket events they interleave with.                                     *)
(***************************************************************************)

FrameInit ==
  /\ ws = WsConstructed(TRUE)
  /\ rx = RxConstructed
  /\ cr = CrConstructed([conversationId \in Conversations |-> 1])
  /\ cfg = CfgConstructed
  /\ api = ApiConstructed
  /\ tu = TuConstructed

FrameNext ==
  \/ Connect
  \/ SocketOpen
  \/ ServerClosing
  \/ KeepaliveTick
  \/ ReceiveFrame
  \/ ReaderLoads

FrameSpec == FrameInit /\ [][FrameNext]_vars

(***************************************************************************)
(* The specification of the WebSocketService model.                        *)
(***************************************************************************)

SocketInit ==
  /\ ws \in {WsConstructed(token) : token \in BOOLEAN}
  /\ cr = CrConstructed([conversationId \in Conversations |-> 1])
  /\ cfg = CfgConstructed
  /\ api = ApiConstructed
  /\ tu = TuConstructed
  /\ rx = RxConstructed

SocketNext ==
  \/ Connect
  \/ SocketOpen
  \/ ServerClosing
  \/ SocketError
  \/ SocketClose
  \/ ReceivePong
  \/ KeepaliveTick
  \/ ReconnectTimerFire
  \/ Tick
  \/ Reset
  \/ Reconnect
  \/ PendingReconnect
  \/ AccessTokenRenewed
  \/ AccessTokenExpires

SocketSpec == SocketInit /\ [][SocketNext]_vars

(***************************************************************************)
(* The specification of the CallingRepository model.                       *)
(***************************************************************************)

CallingInit ==
  /\ cr \in {CrConstructed(p) : p \in {q \in [Conversations -> {0, 1}] : q["B"] > 0}}
  /\ ws = WsConstructed(TRUE)
  /\ cfg = CfgConstructed
  /\ api = ApiConstructed
  /\ tu = TuConstructed
  /\ rx = RxConstructed

CallingNext ==
  \/ StateHandler
  \/ OnCallEvent
  \/ ToggleState
  \/ StartCall
  \/ AnswerCall
  \/ RejectCall
  \/ LeaveCall
  \/ MuteCall
  \/ RemoveParticipant
  \/ CheckCallingSupport
  \/ CheckConcurrentJoinedCall

CallingSpec == CallingInit /\ [][CallingNext]_vars

(***************************************************************************)
(* Properties of the WebSocketService model (SocketSpec).                  *)
(***************************************************************************)

\* sockets the service created that are not closed
Unclosed(w) == {i \in 1..Len(w.sockets) : w.sockets[i].readyState # "CLOSED"}

\* reconnect() ran in the step that led to w, with / without the credential
ReconnectRan(w) == w.fx.trigger # Undefined

\* C2: at most one socket created by the service is un-closed at any time, and
\* an un-closed socket is the one the service holds: connect released the
\* socket held before it created the next.
C2_AtMostOneLiveSocket ==
  /\ Cardinality(Unclosed(ws)) <= 1
  /\ Unclosed(ws) \subseteq {ws.socket}

\* C2 witness: a connect replaced a held socket, and the new socket is open
\* while every earlier one is closed.
C2_Witness ==
  /\ Len(ws.sockets) = MaxSockets
  /\ ws.sockets[ws.socket].readyState = "OPEN"
  /\ \A i \in 1..(Len(ws.sockets) - 1) : ws.sockets[i].readyState = "CLOSED"

\* C3 (as claimed): keepalive ticks on one socket trigger at most one reconnect
\* with trigger PING_INTERVAL, whatever the credential and the attempt counter.
C3_OnePingIntervalReconnect == ws.pingFail <= 1

\* C4: a reconnect() with the credential present connects in the same call, with
\* no timer, exactly when the attempt counter goes from 0 to 1; with the counter
\* already at 1 or more it creates no socket and arms one timer for the full
\* RECONNECT_INTERVAL, and a timer's attempt creates its socket only after the
\* timer was armed for at least that interval.
C4_ReconnectScheduling ==
  [][LET ran == ReconnectRan(ws') /\ ws'.fx.token
         created == Len(ws'.sockets) > Len(ws.sockets)
     IN /\ (ran /\ ws.reconnectCount = 0)
             => (created /\ ws'.fx.armed = <<>> /\ ws'.reconnectCount = 1)
        /\ (ran /\ ws.reconnectCount >= 1)
             => (~created /\ ws'.fx.armed = <<RECONNECT_INTERVAL>>)
        /\ (ws'.fx.op = "reconnectTimer")
             => (created /\ ws'.fx.waited >= RECONNECT_INTERVAL)]_vars

\* C4 witness: a delayed attempt (counter at 2 or more) has just created its
\* socket from a timer that waited the reconnect interval.
C4_Witness ==
  /\ ws.fx.op = "reconnectTimer"
  /\ ws.fx.waited = RECONNECT_INTERVAL
  /\ ws.reconnectCount >= 2
  /\ ws.sockets[ws.socket].readyState = "CONNECTING"

\* C5: a reconnect(trigger) that finds no credential creates no socket, leaves
\* the attempt counter unchanged, arms no timer (the timers are unchanged when
\* reconnect is all the handler does, and only cleared by reset's teardown
\* otherwise), requests one credential refresh and records the trigger.
\* pendingReconnect() clears the field itself after reconnect() returned (line
\* 144), so the recorded trigger is read for every other caller.
C5_DeferredReconnect ==
  [][(ReconnectRan(ws') /\ ~ws'.fx.token)
       => /\ Len(ws'.sockets) = Len(ws.sockets)
          /\ ws'.reconnectCount = ws.reconnectCount
          /\ ws'.fx.armed = <<>>
          /\ ws'.reconnectTimers \subseteq ws.reconnectTimers
          /\ ws'.pingTimers \subseteq ws.pingTimers
          /\ (ws'.fx.op \in {"reconnect", "sendPing", "pendingReconnect"}
                => /\ ws'.reconnectTimers = ws.reconnectTimers
                   /\ ws'.pingTimers = ws.pingTimers
                   /\ ws'.sockets = ws.sockets)
          /\ ws'.fx.renew = 1
          /\ (ws'.fx.op # "pendingReconnect"
                => ws'.pendingReconnectTrigger = ws'.fx.trigger)]_vars

\* C5 witness: a keepalive tick found the ping unanswered, reconnect() found no
\* credential and recorded PING_INTERVAL while a reconnect timer stays armed.
C5_Witness ==
  /\ ws.fx.op = "sendPing"
  /\ ReconnectRan(ws) /\ ~ws.fx.token
  /\ ws.pendingReconnectTrigger = "PING_INTERVAL"
  /\ ws.fx.renew = 1
  /\ ws.reconnectCount >= 1

\* nothing is left that would bring the connection back
Settled(w) ==
  /\ w.socket = 0 \/ w.sockets[w.socket].readyState \notin {"CONNECTING", "OPEN"}
  /\ w.reconnectTimers = {}
  /\ w.pendingReconnectTrigger = Undefined

\* C6 (as claimed, its safety part): after a socket error or close, until the
\* connection is open again (or a caller connects or resets without reconnect),
\* the service is never left with no open socket, no connecting socket, no
\* reconnect timer and no recorded pending trigger.
C6_NeverSettlesOffline == ws.recovering => ~Settled(ws)

\* C19 (as claimed): at most one reconnect timer is outstanding at any time.
C19_OneReconnectTimer == Cardinality(ws.reconnectTimers) <= 1

\* the keepalive timers of w are at most one, the one the service holds the
\* id of, and the held socket still has its handlers and has been opened
KeepaliveOwned(w) ==
  /\ Cardinality(w.pingTimers) <= 1
  /\ w.pingTimers # {}
       => /\ w.pingTimers = {w.pingIntervalId}
          /\ w.socket # 0
          /\ w.sockets[w.socket].onclose
          /\ w.sockets[w.socket].readyState \in {"OPEN", "CLOSING"}

\* C20: at most one keepalive interval timer is outstanding, and only while the
\* held socket is opened and not reset; no timer of an earlier socket is left
\* when a socket is created, so a timer that exists was armed by the open of
\* the held socket, and every open arms its timer with none outstanding.
C20_OneKeepaliveTimer ==
  [][/\ KeepaliveOwned(ws')
     /\ Len(ws'.sockets) > Len(ws.sockets) => ws'.pingTimers = {}
     /\ ws'.fx.op = "onopen"
          => (ws.pingTimers = {} /\ Cardinality(ws'.pingTimers) = 1)]_vars

\* C20 witness: the third socket is open with its keepalive timer running,
\* after the timers of the two sockets before it.
C20_Witness ==
  /\ Len(ws.sockets) = MaxSockets
  /\ ws.fx.op = "onopen"
  /\ ws.sockets[ws.socket].readyState = "OPEN"
  /\ Cardinality(ws.pingTimers) = 1
  /\ \A i \in 1..(Len(ws.sockets) - 1) : ws.sockets[i].readyState = "CLOSED"

\* C26: pendingReconnect() with a recorded trigger invokes reconnect() once,
\* with that trigger, and leaves no trigger recorded; with none recorded it
\* invokes nothing and changes nothing (called directly, or on the renewal
\* of the access token, which itself only stores the token).
C26_PendingReconnect ==
  [][ws'.fx.op \in {"pendingReconnect", "renewed"}
       => IF ws.pendingReconnectTrigger # Undefined
            THEN /\ ws'.fx.calls = 1
                 /\ ws'.fx.trigger = ws.pendingReconnectTrigger
                 /\ ws'.pendingReconnectTrigger = Undefined
            ELSE /\ ws'.fx.calls = 0
                 /\ ws' = [ws EXCEPT !.fx = NoEffects(ws'.fx.op),
                                     !.accessToken = ws'.accessToken]]_vars

\* C26 witness: on the renewal of the access token pendingReconnect() consumed
\* a recorded trigger, and the reconnect it invoked created a socket.
C26_Witness ==
  /\ ws.fx.op = "renewed"
  /\ ws.fx.calls = 1
  /\ ws.fx.token
  /\ ws.fx.trigger \in CHANGE_TRIGGER
  /\ ws.pendingReconnectTrigger = Undefined
  /\ ws.socket # 0 /\ ws.sockets[ws.socket].readyState = "CONNECTING"

\* C27: only the held socket has its error and close handlers attached, so a
\* socket that was torn down reports nothing; an error or close event invokes
\* reconnect() exactly once and leaves the reporting socket detached.
C27_TornDownSocketIsSilent ==
  [][/\ \A i \in 1..Len(ws'.sockets) : ws'.sockets[i].onclose => i = ws'.socket
     /\ ws'.fx.op \in {"onerror", "onclose"}
          => /\ ws'.fx.calls = 1
             /\ \A i \in 1..Len(ws.sockets) : ~ws'.sockets[i].onclose]_vars

\* C27 witness: after an error event tore the socket down and scheduled a
\* delayed attempt, no socket is left that could report an event.
C27_Witness ==
  /\ ws.fx.op = "onerror"
  /\ ws.fx.calls = 1
  /\ ws.fx.armed # <<>>
  /\ Len(ws.sockets) >= 1
  /\ \A i \in 1..Len(ws.sockets) : ~ws.sockets[i].onclose

\* C28: when the socket a reconnect attempt created reports open, the attempt
\* counter is zero afterwards and exactly one online notification is published;
\* no other step publishes one; and a reconnect() that follows such an open with
\* the credential present connects at once, with no timer.
C28_ReconnectedOnce ==
  [][/\ ws'.fx.op = "onopen"
          => IF ws.thenReconnected
               THEN ws'.reconnectCount = 0 /\ ws'.fx.online = 1
               ELSE ws'.fx.online = 0
     /\ ws'.fx.op # "onopen" => ws'.fx.online = 0
     /\ (ws.fx.op = "onopen" /\ ws.fx.online = 1 /\ ReconnectRan(ws') /\ ws'.fx.token)
          => /\ Len(ws'.sockets) = Len(ws.sockets) + 1
             /\ ws'.fx.armed = <<>>]_vars

\* C28 witness: a socket created by a delayed attempt has opened: the counter
\* is back at zero and one notification was published.
C28_Witness ==
  /\ ws.fx.op = "onopen"
  /\ ws.fx.online = 1
  /\ ws.reconnectCount = 0
  /\ Len(ws.sockets) >= 2

\* C32 (as claimed): a reconnect deferred for the credential is never lost: a
\* recorded pendingReconnectTrigger stays recorded over every step that leaves
\* the credential absent and creates no socket, pendingReconnect() included.
C32_DeferredReconnectKept ==
  [][(/\ ws.pendingReconnectTrigger # Undefined
      /\ ~ws'.accessToken
      /\ Len(ws'.sockets) = Len(ws.sockets))
       => ws'.pendingReconnectTrigger # Undefined]_vars

\* C33 (as claimed): after reset(trigger, false), whatever the state it was
\* called in, no socket is created until a client calls connect, reset(...,
\* true) or reconnect: not by an earlier reconnect timer, not on a renewed
\* credential.
C33_NoSocketAfterStop ==
  [][(ws.stopped /\ ws'.stopped) => Len(ws'.sockets) = Len(ws.sockets)]_vars

(***************************************************************************)
(* Properties of the CallingRepository model (CallingSpec).                *)
(***************************************************************************)

\* C1: the active-calls list holds at most one entry per conversationId.
C1_OneCallPerConversation ==
  \A i, j \in 1..Len(cr.activeCalls) :
    cr.activeCalls[i].conversationId = cr.activeCalls[j].conversationId => i = j

\* C1 witness: the state handler ran for a conversation whose call was already
\* stored, with the call of another conversation stored beside it.
C1_Witness ==
  /\ cr.fx.op = "state_handler"
  /\ cr.fx.had
  /\ Len(cr.activeCalls) = 2
  /\ findCall(cr.activeCalls, cr.fx.conversationId) # 0

\* the start command the handler sent to the engine, if it sent one
StartCommands(c) ==
  {i \in 1..Len(c.fx.cmds) : c.fx.cmds[i][1] = "start"}

\* C7 (as claimed): starting a call on a conversation with zero participants
\* fails with NotSupported and sends no start command to the engine.
C7_NoStartWithoutParticipants ==
  (/\ cr.fx.op \in {"startCall", "toggleState"}
   /\ cr.fx.conversationId \in Conversations
   /\ cr.participants[cr.fx.conversationId] = 0)
    => (StartCommands(cr) = {} /\ cr.fx.outcome = "NOT_SUPPORTED")

\* C8 (as claimed): while another conversation's call is in MEDIA_ESTAB, a join
\* (the concurrent-call check for proposed state ONGOING, a start or an answer)
\* presents the arbitration decision instead of proceeding directly.
C8_ConcurrentJoinArbitrated ==
  (/\ cr.fx.concurrent
   /\ \/ cr.fx.op = "_checkConcurrentJoinedCall" /\ cr.fx.state = "ONGOING"
      \/ cr.fx.op \in {"startCall", "answerCall"})
    => (cr.fx.modal /\ cr.fx.outcome = "pending" /\ cr.fx.cmds = <<>>)

\* C9 (as claimed): an inbound CANCEL for a conversation with no active call
\* hands no record to the event sink.
C9_CancelWithoutCallIsNoOp ==
  (cr.fx.op = "onCallEvent" /\ cr.fx.type = "CANCEL" /\ ~cr.fx.had)
    => cr.fx.injected = <<>>

\* C10 (as claimed): an inbound SETUP for a conversation that already has a
\* stored call hands no activation record to the event sink.
C10_DuplicateSetupIgnored ==
  (cr.fx.op = "onCallEvent" /\ cr.fx.type = "SETUP" /\ cr.fx.had)
    => cr.fx.injected = <<>>

\* the commands of the given name the handler sent to the engine
Commands(c, name) ==
  {i \in 1..Len(c.fx.cmds) : c.fx.cmds[i][1] = name}

\* C11 (as claimed): toggleState on a conversation sends the start command when
\* no call of the conversation is stored, and sends the end command, and no
\* start command, when one is stored.
C11_ToggleStartsOrLeaves ==
  (cr.fx.op = "toggleState" /\ cr.fx.conversationId \in Conversations)
    => IF cr.fx.had
         THEN /\ Commands(cr, "start") = {}
              /\ cr.fx.cmds = <<(<<"end", cr.fx.conversationId>>)>>
         ELSE /\ Commands(cr, "end") = {}
              /\ Cardinality(Commands(cr, "start")) = 1

\* the states that end a call
TerminalStates == {"TERM_REMOTE", "TERM_LOCAL", "NONE"}

\* the stored calls of the conversations other than the given one, in order
OtherCalls(calls, conversationId) ==
  SelectSeq(calls, LAMBDA call : call.conversationId # conversationId)

\* C12: after the state handler processed TERM_REMOTE, TERM_LOCAL or NONE for a
\* conversation, no call of that conversation is stored (whether or not one was
\* stored before) and the calls of the other conversations are unchanged; no
\* stored call is in a terminal state after any handler.
C12_TerminalStateRemovesCall ==
  [][/\ (cr'.fx.op = "state_handler" /\ cr'.fx.state \in TerminalStates)
          => /\ findCall(cr'.activeCalls, cr'.fx.conversationId) = 0
             /\ OtherCalls(cr'.activeCalls, cr'.fx.conversationId)
                  = OtherCalls(cr.activeCalls, cr'.fx.conversationId)
     /\ \A i \in 1..Len(cr'.activeCalls) :
          cr'.activeCalls[i].state \notin TerminalStates]_vars

\* C12 witness: the handler processed TERM_REMOTE for a conversation whose call
\* was stored, and what is left is the call of the other conversation.
C12_Witness ==
  /\ cr.fx.op = "state_handler"
  /\ cr.fx.state = "TERM_REMOTE"
  /\ cr.fx.had
  /\ Len(cr.activeCalls) = 1
  /\ cr.activeCalls[1].conversationId # cr.fx.conversationId

\* the transition table of a CallSession; REJECTED is no member of CALL_STATE
CallTransitions ==
  {<<"NONE", "OUTGOING">>, <<"NONE", "INCOMING">>,
   <<"OUTGOING", "ANSWERED">>, <<"OUTGOING", "TERM_LOCAL">>,
   <<"OUTGOING", "TERM_REMOTE">>,
   <<"INCOMING", "ANSWERED">>, <<"INCOMING", "REJECTED">>,
   <<"INCOMING", "TERM_REMOTE">>,
   <<"ANSWERED", "MEDIA_ESTAB">>, <<"ANSWERED", "TERM_LOCAL">>,
   <<"ANSWERED", "TERM_REMOTE">>,
   <<"MEDIA_ESTAB", "TERM_LOCAL">>, <<"MEDIA_ESTAB", "TERM_REMOTE">>}

\* the recorded state of the conversation's call, NONE when no call is stored
RecordedState(calls, conversationId) ==
  IF findCall(calls, conversationId) # 0
    THEN calls[findCall(calls, conversationId)].state
    ELSE "NONE"

\* C13 (as claimed): the recorded state of a conversation's call changes only
\* along the transition table, for every sequence of engine state callbacks.
C13_OnlyListedTransitions ==
  [][\A conversationId \in Conversations :
       LET old == RecordedState(cr.activeCalls, conversationId)
           new == RecordedState(cr'.activeCalls, conversationId)
       IN old # new
            => \/ <<old, new>> \in CallTransitions
               \/ /\ new = "NONE"
                  /\ <<old, cr'.fx.state>> \in CallTransitions]_vars

\* C16: both timestamps onCallEvent hands to recv_msg are the floor of the
\* millisecond value divided by 1000: the second that contains the instant,
\* never the next one.
C16_TimestampsFloored ==
  cr.fx.op = "onCallEvent"
    => /\ Len(cr.fx.secs) = 2
       /\ \A k \in 1..2 :
            /\ cr.fx.secs[k] * 1000 <= cr.fx.ms[k]
            /\ cr.fx.ms[k] < (cr.fx.secs[k] + 1) * 1000

\* C16 witness: an event at 1500 ms handled at server time 1999 ms was handed
\* to recv_msg as seconds 1 and 1; rounding gives 2 for both.
C16_Witness ==
  /\ cr.fx.op = "onCallEvent"
  /\ cr.fx.recv = 1
  /\ cr.fx.ms = <<1999, 1500>>
  /\ cr.fx.secs = <<1, 1>>

\* C23: when recv_msg returns a non-zero result, onCallEvent hands no activation
\* or deactivation record to the event repository, has invoked recv_msg once and
\* sends the engine nothing else; no onCallEvent changes this.activeCalls.
C23_FailedInjectionAborts ==
  [][cr'.fx.op = "onCallEvent"
       => /\ cr'.activeCalls = cr.activeCalls
          /\ cr'.fx.res # 0
               => /\ cr'.fx.injected = <<>>
                  /\ cr'.fx.recv = 1
                  /\ cr'.fx.cmds = <<>>]_vars

C23_Witness ==
  /\ cr.fx.op = "onCallEvent"
  /\ cr.fx.res # 0
  /\ cr.fx.type = "SETUP"
  /\ cr.fx.injected = <<>>
  /\ cr.activeCalls # <<>>

\* C24: removeParticipant throws an error for every conversation and user,
\* leaves this.activeCalls as it was and sends the engine no command.
C24_RemoveParticipantFails ==
  [][cr'.fx.op = "removeParticipant"
       => /\ cr'.fx.outcome = "Error"
          /\ cr'.fx.cmds = <<>>
          /\ cr'.activeCalls = cr.activeCalls]_vars

C24_Witness ==
  /\ cr.fx.op = "removeParticipant"
  /\ cr.fx.outcome = "Error"
  /\ findCall(cr.activeCalls, cr.fx.conversationId) # 0

\* the state handler was given MEDIA_ESTAB for the conversation in this step
EstablishedNow(conversationId) ==
  /\ cr'.fx.op = "state_handler"
  /\ cr'.fx.state = "MEDIA_ESTAB"
  /\ cr'.fx.conversationId = conversationId

\* C30: a call of this.activeCalls has startedAt set if and only if the state
\* handler was given MEDIA_ESTAB for it since it was created: a call is created
\* with startedAt set exactly when MEDIA_ESTAB creates it, and a stored call has
\* startedAt set after a step exactly when it had before or the step is the
\* state handler with MEDIA_ESTAB for it; nothing but the state handler
\* creates a call.
C30_StartedAtOnlyOnMediaEstablished ==
  [][\A conversationId \in Conversations :
       LET before == findCall(cr.activeCalls, conversationId)
           after == findCall(cr'.activeCalls, conversationId)
       IN after # 0
            => IF before = 0
                 THEN /\ cr'.fx.op = "state_handler"
                      /\ cr'.fx.conversationId = conversationId
                      /\ cr'.activeCalls[after].startedAt # 0
                            <=> EstablishedNow(conversationId)
                 ELSE cr'.activeCalls[after].startedAt # 0
                        <=> \/ cr.activeCalls[before].startedAt # 0
                            \/ EstablishedNow(conversationId)]_vars

C30_Witness ==
  /\ \E i \in 1..Len(cr.activeCalls) :
       /\ cr.activeCalls[i].startedAt # 0
       /\ cr.activeCalls[i].state = "ANSWERED"
  /\ \E i \in 1..Len(cr.activeCalls) : cr.activeCalls[i].startedAt = 0
  /\ cr.fx.op = "state_handler"

(***************************************************************************)
(* Properties of the configuration cache (ConfigSpec).                     *)
(***************************************************************************)

\* C14 (as claimed): with a stored config fetched at t0 with ttl = 100, a
\* getConfig() before t0 + 90 s resolves with the stored config and sends no
\* request, and a getConfig() at or after t0 + 90 s sends a request.
C14_CacheBoundary ==
  (cfg.fx.op = "getConfig" /\ cfg.fx.config.present /\ cfg.fx.config.ttl = 100)
    => IF cfg.fx.at < cfg.fx.config.fetchedAt + 90 * SECOND
         THEN cfg.fx.cached /\ cfg.fx.fetches = 0
         ELSE ~cfg.fx.cached /\ cfg.fx.fetches = 1

\* C15 (as claimed): the stored config expires min(ttl * 0.9, 3600) seconds
\* after it was fetched, for every ttl.
C15_Lifetime ==
  cfg.callingConfig.present
    => 10 * (cfg.callingConfig.expiration - cfg.callingConfig.fetchedAt)
         = Min(cfg.callingConfig.ttl * 9 * SECOND, 3600 * 10 * SECOND)

(***************************************************************************)
(* Properties of the call API (ApiSpec).                                   *)
(***************************************************************************)

\* the characters of [A-Za-z0-9_]
WordCharacters ==
  {"a", "b", "c", "d", "e", "f", "g", "h", "i", "j", "k", "l", "m",
   "n", "o", "p", "q", "r", "s", "t", "u", "v", "w", "x", "y", "z",
   "A", "B", "C", "D", "E", "F", "G", "H", "I", "J", "K", "L", "M",
   "N", "O", "P", "Q", "R", "S", "T", "U", "V", "W", "X", "Y", "Z",
   "0", "1", "2", "3", "4", "5", "6", "7", "8", "9", "_"}

\* C17 (as claimed): every SETUP payload handed to sendMessage carries a
\* session id of exactly 4 characters, all from [A-Za-z0-9_].
C17_SetupSessionId ==
  \A i \in 1..Len(api.fx.sent) :
    api.fx.sent[i].data.type = "SETUP"
      => /\ Len(api.fx.sent[i].data.sessid) = 4
         /\ \A j \in 1..Len(api.fx.sent[i].data.sessid) :
              api.fx.sent[i].data.sessid[j] \in WordCharacters

\* C25 (as claimed): a callStart for a user, client and conversation whose call
\* is in state.activeCalls is rejected: it leaves the entry as it is and starts
\* no second negotiation.
C25_SecondCallStartRejected ==
  [][(api'.fx.op = "callStart" /\ api'.fx.had)
       => /\ api'.activeCalls = api.activeCalls
          /\ api'.attempts = api.attempts]_vars

\* C31 (as claimed): the callback of the 500 ms timer of a started call sends
\* exactly one SETUP, and peerConnection.localDescription is set when it runs.
C31_SetupAfterLocalDescription ==
  [][api'.fx.op = "setupTimer"
       => \E k \in 1..Len(api.attempts) :
            /\ api.attempts[k].stage = "timer"
            /\ api.attempts[k].localDescription
            /\ api'.attempts[k].stage = "sent"
            /\ Len(api'.fx.sent) = 1
            /\ api'.fx.sent[1].data.type = "SETUP"]_vars

\* C34 (as claimed): a call id belongs to one (userId, clientId, conversationId):
\* when callStart or callGetState finds an entry of state.activeCalls, the entry
\* was put there by a callStart for the same wUser and conversationId.
C34_CallIdOfOneTriple ==
  [][(api'.fx.op \in {"callStart", "callGetState"} /\ api'.fx.had)
       => \E k \in 1..Len(api.attempts) :
            /\ api.attempts[k].wUser = api'.fx.args[1]
            /\ api.attempts[k].conversationId = api'.fx.args[2]]_vars

\* the call the k-th callStart put into OUTGOING has had its SETUP sent, or its
\* call id is no longer in state.activeCalls
SetupSentOrRemoved(k) ==
  /\ Len(api.attempts) >= k
  /\ \/ api.attempts[k].stage = "sent"
     \/ activeCallAt(api, generateCallId(api.attempts[k].wUser,
                                         api.attempts[k].conversationId)) = 0

\* C35 (as claimed): every call put into OUTGOING by callStart eventually has
\* its SETUP sent or is removed from state.activeCalls.
C35_OutgoingResolves ==
  \A k \in 1..(MaxCallStarts + 1) :
    (Len(api.attempts) >= k) ~> SetupSentOrRemoved(k)

(***************************************************************************)
(* Properties of TimeUtil.formatSeconds (FormatSpec).                      *)
(***************************************************************************)

\* the value of a digit character, 10 for any other character
DigitValue(c) ==
  IF \E v \in 0..9 : Digits[v + 1] = c
    THEN CHOOSE v \in 0..9 : Digits[v + 1] = c
    ELSE 10

\* the characters are decimal digits
AllDigits(str) == \A i \in 1..Len(str) : DigitValue(str[i]) < 10

\* the number a string of decimal digits reads as
RECURSIVE NumberOf(_)
NumberOf(str) ==
  IF Len(str) = 0 THEN 0
  ELSE 10 * NumberOf(SubSeq(str, 1, Len(str) - 1)) + DigitValue(str[Len(str)])

\* str reads MM:SS with two digits each, minutes and seconds below 60, and stands
\* for the given number of seconds
IsMinutesSeconds(str, d) ==
  /\ Len(str) = 5
  /\ str[3] = ":"
  /\ AllDigits(SubSeq(str, 1, 2)) /\ AllDigits(SubSeq(str, 4, 5))
  /\ NumberOf(SubSeq(str, 1, 2)) < 60
  /\ NumberOf(SubSeq(str, 4, 5)) < 60
  /\ NumberOf(SubSeq(str, 1, 2)) * 60 + NumberOf(SubSeq(str, 4, 5)) = d

Loaded == rx.readers \ rx'.readers

\* the text is neither the keepalive answer nor parseable
Malformed(result) == result # "pong" /\ JSONparse(result) = <<>>

\* C21 (as claimed): of two frames of one socket that are forwarded to
\* onNotification one after the other, the one forwarded later was received
\* later.
C21_FramesInArrivalOrder ==
  [][(/\ ws'.fx.op = "onload"
      /\ ws'.fx.notified # <<>>
      /\ rx'.last.socket = rx.last.socket)
       => rx'.last.seq > rx.last.seq]_vars

\* C22: when the reader of a malformed frame finishes, nothing is handed to
\* onNotification, the sockets, the pending-ping flag, the timers, the attempt
\* counter and the pending trigger are as before, and the readers of the other
\* frames stay due.
C22_MalformedFrameDropped ==
  [][\A reader \in Loaded :
       (ws'.fx.op = "onload" /\ Malformed(reader.result))
         => /\ ws'.fx.notified = <<>>
            /\ ws'.sockets = ws.sockets
            /\ ws'.socket = ws.socket
            /\ ws'.hasAlreadySentUnansweredPing = ws.hasAlreadySentUnansweredPing
            /\ ws'.pingTimers = ws.pingTimers
            /\ ws'.reconnectTimers = ws.reconnectTimers
            /\ ws'.reconnectCount = ws.reconnectCount
            /\ ws'.pendingReconnectTrigger = ws.pendingReconnectTrigger
            /\ rx'.readers = rx.readers \ {reader}]_vars

\* C22 witness: a frame that arrived after a malformed one was forwarded after
\* the malformed one had been dropped, on a socket that is still open.
C22_Witness ==
  /\ ws.fx.op = "onload"
  /\ ws.fx.notified # <<>>
  /\ rx.dropped # 0
  /\ ws.fx.frame > rx.dropped
  /\ ws.sockets[ws.socket].readyState = "OPEN"
  /\ Len(ws.sockets) = 1

\* C29: a keepalive tick on an open socket with the flag clear sends "ping" and
\* sets the flag; with the flag set it sends nothing; on a socket that is not
\* open it sends nothing and invokes reconnect(READY_STATE); nothing but a tick
\* sends "ping"; a "pong" that was read clears the flag and is not handed to
\* onNotification.
C29_KeepaliveRules ==
  [][/\ ws'.fx.op = "sendPing"
          => IF ws.sockets[ws.socket].readyState = "OPEN"
               THEN IF ws.hasAlreadySentUnansweredPing
                      THEN ws'.fx.sent = <<>>
                      ELSE /\ ws'.fx.sent = <<"ping">>
                           /\ ws'.hasAlreadySentUnansweredPing
                           /\ ws'.fx.calls = 0
               ELSE /\ ws'.fx.sent = <<>>
                    /\ ws'.fx.calls = 1
                    /\ ws'.fx.trigger = "READY_STATE"
     /\ ws'.fx.op # "sendPing" => ws'.fx.sent = <<>>
     /\ \A reader \in Loaded :
          (ws'.fx.op = "onload" /\ reader.result = "pong")
            => /\ ~ws'.hasAlreadySentUnansweredPing
               /\ ws'.fx.notified = <<>>]_vars

\* C29 witness: the reader of a "pong" finished while a ping was unanswered
\* and cleared the flag.
C29_Witness ==
  /\ ws.fx.op = "onload"
  /\ ws.fx.pong
  /\ ~ws.hasAlreadySentUnansweredPing
  /\ ws.fx.notified = <<>>

====
